---------------------------- MODULE Spec2Model ----------------------------
(***************************************************************************)
(* A model of the wireframe renderer: the OBJ loader (core/ObjLoader.cpp,  *)
(* core/Geometry.h), the static pipeline (core/Renderer.cpp), the camera   *)
(* and matrix kernel (core/Camera.h, core/Math.h) and the interactive      *)
(* viewer (apps/render_qt.cpp).                                            *)
(*                                                                         *)
(* Numbers.  The program computes in IEEE-754 binary floating point.  The  *)
(* model keeps the format's rules (round to nearest, ties to even, after   *)
(* every operation; overflow to infinity; NaN) and shortens the            *)
(* significand to Prec bits (binary32 has 24), so that TLC's integers can  *)
(* carry the exact intermediate results.  The exponent is unbounded below  *)
(* (no underflow, no signed zero).  `double' quantities of the viewer use  *)
(* the same format.                                                        *)
(***************************************************************************)
EXTENDS Integers, Sequences, FiniteSets, TLC

(***************************************************************************)
(* Bounds of the model.                                                    *)
(***************************************************************************)
Prec == 8
EMax == 127

\* ------------------------------------------------------------------------
\* Floating point: a value is [m |-> mantissa, e |-> exponent], m * 2^e,
\* with m = 0 /\ e = 0 for zero and 2^(Prec-1) <= |m| < 2^Prec otherwise.
\* e = EInf marks the non-finite values: m = 1 / -1 for +inf / -inf, 0 NaN.
\* ------------------------------------------------------------------------
Pow2(n) == IF n <= 0 THEN 1 ELSE 2 ^ n

\* The number of bits of n >= 0.
RECURSIVE BitLen(_)
BitLen(n) ==
  IF n >= 65536 THEN 16 + BitLen(n \div 65536)
  ELSE IF n >= 256 THEN 8 + BitLen(n \div 256)
  ELSE IF n >= 16 THEN 4 + BitLen(n \div 16)
  ELSE IF n >= 4 THEN 2 + BitLen(n \div 4)
  ELSE IF n >= 2 THEN 2
  ELSE IF n = 1 THEN 1
  ELSE 0

Abs(i) == IF i < 0 THEN -i ELSE i
Sgn(i) == IF i < 0 THEN -1 ELSE IF i > 0 THEN 1 ELSE 0

EInf  == EMax + 1
Zero  == [m |-> 0, e |-> 0]
NaN   == [m |-> 0, e |-> EInf]
Inf(s) == [m |-> s, e |-> EInf]

IsNaN(x)    == x.e = EInf /\ x.m = 0
IsInf(x)    == x.e = EInf /\ x.m # 0
IsFinite(x) == x.e # EInf

\* The float s * m * 2^e for a significand m of Prec bits: infinite when
\* the exponent exceeds the format's.
Pack(s, m, e) == IF e + Prec - 1 > EMax THEN Inf(s) ELSE [m |-> s * m, e |-> e]

\* A significand q that rounding up may have carried to 2^Prec.
Carry(s, q, e) ==
  IF q = Pow2(Prec) THEN Pack(s, Pow2(Prec - 1), e + 1) ELSE Pack(s, q, e)

\* q + r/(2h) + (a sticky fraction), to nearest, ties to even.
Nearest(s, q, r, h, sticky, e) ==
  Carry(s, IF r > h \/ (r = h /\ (sticky \/ q % 2 = 1)) THEN q + 1 ELSE q, e)

\* n of L bits: scaled up to Prec bits, or cut down to them and rounded.
Fit(s, n, sticky, e, L) ==
  IF L <= Prec
  THEN Pack(s, n * Pow2(Prec - L), e - (Prec - L))
  ELSE Nearest(s, n \div Pow2(L - Prec), n % Pow2(L - Prec),
               Pow2(L - Prec - 1), sticky, e + (L - Prec))

\* s * (n + fraction) * 2^e rounded to Prec bits, to nearest, ties to even;
\* sticky says that a non-zero fraction below the integer n was cut off
\* (n then has more than Prec bits).
Round(s, n, sticky, e) ==
  IF n = 0 THEN Zero ELSE Fit(s, n, sticky, e, BitLen(n))

\* The float nearest to the integer i, and to the decimal literal n/d (d > 0).
IntF(i) == Round(Sgn(i), Abs(i), FALSE, 0)

RECURSIVE RatScale(_, _, _)
RatScale(n, d, k) ==
  IF n >= d * Pow2(Prec) THEN Round(1, n \div d, n % d # 0, -k)
  ELSE RatScale(2 * n, d, k + 1)

Lit(n, d) ==
  IF n = 0 THEN Zero
  ELSE LET r == RatScale(Abs(n), d, 0) IN [m |-> Sgn(n) * r.m, e |-> r.e]

FNeg(x) == [m |-> -x.m, e |-> x.e]
FAbs(x) == [m |-> Abs(x.m), e |-> x.e]

FAdd(x, y) ==
  IF IsNaN(x) \/ IsNaN(y) THEN NaN
  ELSE IF IsInf(x) THEN (IF IsInf(y) /\ y.m # x.m THEN NaN ELSE x)
  ELSE IF IsInf(y) THEN y
  ELSE IF x.m = 0 THEN y
  ELSE IF y.m = 0 THEN x
  ELSE LET hi == IF x.e >= y.e THEN x ELSE y
           lo == IF x.e >= y.e THEN y ELSE x
           g  == hi.e - lo.e
       IN IF g > Prec + 1 THEN hi
          ELSE LET n == hi.m * Pow2(g) + lo.m
               IN Round(Sgn(n), Abs(n), FALSE, lo.e)

FSub(x, y) == FAdd(x, FNeg(y))

FMul(x, y) ==
  IF IsNaN(x) \/ IsNaN(y) THEN NaN
  ELSE IF IsInf(x) \/ IsInf(y)
       THEN (IF x.m = 0 \/ y.m = 0 THEN NaN ELSE Inf(Sgn(x.m) * Sgn(y.m)))
  ELSE IF x.m = 0 \/ y.m = 0 THEN Zero
  ELSE Round(Sgn(x.m) * Sgn(y.m), Abs(x.m) * Abs(y.m), FALSE, x.e + y.e)

FDiv(x, y) ==
  IF IsNaN(x) \/ IsNaN(y) THEN NaN
  ELSE IF IsInf(x) THEN (IF IsInf(y) THEN NaN
                         ELSE Inf(x.m * (IF y.m < 0 THEN -1 ELSE 1)))
  ELSE IF IsInf(y) THEN Zero
  ELSE IF y.m = 0 THEN (IF x.m = 0 THEN NaN ELSE Inf(Sgn(x.m)))
  ELSE IF x.m = 0 THEN Zero
  ELSE LET n == Abs(x.m) * Pow2(Prec + 1)
       IN Round(Sgn(x.m) * Sgn(y.m), n \div Abs(y.m), n % Abs(y.m) # 0,
                x.e - y.e - (Prec + 1))

\* x < y; every comparison with NaN is false.
FLt(x, y) ==
  /\ ~IsNaN(x) /\ ~IsNaN(y)
  /\ IF Sgn(x.m) # Sgn(y.m) THEN Sgn(x.m) < Sgn(y.m)
     ELSE IF x.m > 0 THEN x.e < y.e \/ (x.e = y.e /\ x.m < y.m)
     ELSE IF x.m < 0 THEN x.e > y.e \/ (x.e = y.e /\ x.m < y.m)
     ELSE FALSE
FGt(x, y) == FLt(y, x)
FLe(x, y) == ~IsNaN(x) /\ ~IsNaN(y) /\ ~FLt(y, x)
FGe(x, y) == FLe(y, x)
FEq(x, y) == ~IsNaN(x) /\ ~IsNaN(y) /\ x = y

\* std::max(a, b) is (a < b) ? b : a; std::min(a, b) is (b < a) ? b : a.
FMax(a, b) == IF FLt(a, b) THEN b ELSE a
FMin(a, b) == IF FLt(b, a) THEN b ELSE a

\* sqrt, correctly rounded: the integer square root of the significand
\* scaled to 2*Prec+2 or 2*Prec+3 bits, and the remainder as sticky bit.
RECURSIVE SqrtBits(_, _, _)
SqrtBits(n, r, b) ==
  IF b = 0 THEN r
  ELSE IF (r + b) * (r + b) <= n THEN SqrtBits(n, r + b, b \div 2)
  ELSE SqrtBits(n, r, b \div 2)

FSqrt(x) ==
  IF IsNaN(x) \/ x.m < 0 THEN NaN
  ELSE IF IsInf(x) \/ x.m = 0 THEN x
  ELSE LET s == IF (x.e - (Prec + 2)) % 2 = 0 THEN Prec + 2 ELSE Prec + 3
           n == x.m * Pow2(s)
           r == SqrtBits(n, 0, Pow2(Prec + 2))
       IN Round(1, r, r * r # n, (x.e - s) \div 2)

\* The float with the binary32 significand n (an integer) and exponent e,
\* n * 2^e, rounded to the model's precision.
Bits(n, e) == Round(Sgn(n), Abs(n), FALSE, e)

One  == IntF(1)
Two  == IntF(2)
Half == Lit(1, 2)

\* ------------------------------------------------------------------------
\* core/Math.h: vectors, and matrices m[i][j] with i, j in 0..3.
\* ------------------------------------------------------------------------
Vec2(X, Y)       == [x |-> X, y |-> Y]
Vec3(X, Y, Z)    == [x |-> X, y |-> Y, z |-> Z]
Vec4(X, Y, Z, W) == [x |-> X, y |-> Y, z |-> Z, w |-> W]

VAdd(a, b)   == Vec3(FAdd(a.x, b.x), FAdd(a.y, b.y), FAdd(a.z, b.z))
VSub(a, b)   == Vec3(FSub(a.x, b.x), FSub(a.y, b.y), FSub(a.z, b.z))
VScale(a, k) == Vec3(FMul(a.x, k), FMul(a.y, k), FMul(a.z, k))
VDiv(a, k)   == Vec3(FDiv(a.x, k), FDiv(a.y, k), FDiv(a.z, k))

dot(a, b) == FAdd(FAdd(FMul(a.x, b.x), FMul(a.y, b.y)), FMul(a.z, b.z))
cross(a, b) ==
  Vec3(FSub(FMul(a.y, b.z), FMul(a.z, b.y)),
       FSub(FMul(a.z, b.x), FMul(a.x, b.z)),
       FSub(FMul(a.x, b.y), FMul(a.y, b.x)))
length(v) == FSqrt(dot(v, v))
normalize(v) == LET L == length(v) IN IF FGt(L, Zero) THEN VDiv(v, L) ELSE v

Idx == 0..3
\* The matrix with the rows r[1..4], each a 4-tuple.
Mat(r) == [i \in Idx |-> [j \in Idx |-> r[i + 1][j + 1]]]

identity == [i \in Idx |-> [j \in Idx |-> IF i = j THEN One ELSE Zero]]

\* The matrix lookAt fills in from the eye and its basis f, s (u = s x f).
lookAtRows(eye, fwd, right) ==
  LET upv == cross(right, fwd)
  IN Mat(<< <<right.x, right.y, right.z, FNeg(dot(right, eye))>>,
            <<upv.x, upv.y, upv.z, FNeg(dot(upv, eye))>>,
            <<FNeg(fwd.x), FNeg(fwd.y), FNeg(fwd.z), dot(fwd, eye)>>,
            <<Zero, Zero, Zero, One>> >>)

lookAt(eye, target, up) ==
  LET fwd == normalize(VSub(target, eye))
  IN lookAtRows(eye, fwd, normalize(cross(fwd, up)))

\* std::tan(fovYRadians * 0.5f), tabulated for the fields of view used:
\* 60 degrees (the default) and 90 degrees.
TanHalf(fovY) ==
  CASE fovY = "60deg" -> Lit(57735, 100000)
    [] fovY = "90deg" -> One

perspective(fovY, aspect, znear, zfar) ==
  LET f == FDiv(One, TanHalf(fovY)) IN
  Mat(<< <<FDiv(f, aspect), Zero, Zero, Zero>>,
         <<Zero, f, Zero, Zero>>,
         <<Zero, Zero, FDiv(FAdd(zfar, znear), FSub(znear, zfar)),
           FDiv(FMul(FMul(Two, zfar), znear), FSub(znear, zfar))>>,
         <<Zero, Zero, FNeg(One), Zero>> >>)

orthographic(left, right, bottom, top, znear, zfar) ==
  Mat(<< <<FDiv(Two, FSub(right, left)), Zero, Zero,
           FDiv(FNeg(FAdd(right, left)), FSub(right, left))>>,
         <<Zero, FDiv(Two, FSub(top, bottom)), Zero,
           FDiv(FNeg(FAdd(top, bottom)), FSub(top, bottom))>>,
         <<Zero, Zero, FDiv(FNeg(Two), FSub(zfar, znear)),
           FDiv(FNeg(FAdd(zfar, znear)), FSub(zfar, znear))>>,
         <<Zero, Zero, Zero, One>> >>)

\* operator*(Mat4, Mat4): r.m[i][j] starts at 0 and accumulates over k.
MatMul(a, b) ==
  [i \in Idx |-> [j \in Idx |->
     FAdd(FAdd(FAdd(FAdd(Zero, FMul(a[i][0], b[0][j])),
                    FMul(a[i][1], b[1][j])),
               FMul(a[i][2], b[2][j])),
          FMul(a[i][3], b[3][j]))]]

MulRow(r, v) ==
  FAdd(FAdd(FAdd(FMul(r[0], v.x), FMul(r[1], v.y)), FMul(r[2], v.z)),
       FMul(r[3], v.w))

AsVec4(r) == Vec4(r[0], r[1], r[2], r[3])

mul(a, v) == AsVec4([i \in Idx |-> MulRow(a[i], v)])

\* ------------------------------------------------------------------------
\* core/Camera.h.  yaw and pitch are kept as the names of the angles the
\* runs use, with std::cos and std::sin tabulated for them: 0.8 and 0.4
\* (the defaults), 0, the float nearest to pi/2 (what atan2(d, 0) returns),
\* 1.55 and -1.55 (the viewer's pitch limits), and 2^-24, written 6e-8
\* (what 0.8f - 80 * 0.01f leaves of the yaw).
\* ------------------------------------------------------------------------
Cos(a) ==
  CASE a = "0.8"  -> Lit(69671, 100000)
    [] a = "0.4"  -> Lit(92106, 100000)
    [] a = "0"    -> One
    [] a = "pi/2" -> Bits(-12303662, -48)
    [] a = "1.55" -> Lit(20795, 1000000)
    [] a = "-1.55" -> Lit(20795, 1000000)
    [] a = "6e-8" -> One

Sin(a) ==
  CASE a = "0.8"  -> Lit(71736, 100000)
    [] a = "0.4"  -> Lit(38942, 100000)
    [] a = "0"    -> Zero
    [] a = "pi/2" -> One
    [] a = "1.55" -> Lit(99978, 100000)
    [] a = "-1.55" -> Lit(-99978, 100000)
    [] a = "6e-8" -> Bits(1, -24)

CameraOrbit ==
  [target |-> Vec3(Zero, Zero, Zero), radius |-> IntF(3), yaw |-> "0.8",
   pitch |-> "0.4", perspective |-> TRUE, fovY |-> "60deg",
   znear |-> Lit(5, 100), zfar |-> IntF(100), orthoScale |-> One]

position(cam) ==
  LET cp == Cos(cam.pitch)
      sp == Sin(cam.pitch)
      cy == Cos(cam.yaw)
      sy == Sin(cam.yaw)
  IN VAdd(cam.target,
          Vec3(FMul(FMul(cam.radius, cp), cy), FMul(cam.radius, sp),
               FMul(FMul(cam.radius, cp), sy)))

view(cam) == lookAt(position(cam), cam.target, Vec3(Zero, One, Zero))

projection(cam, aspect) ==
  IF cam.perspective
  THEN perspective(cam.fovY, aspect, cam.znear, cam.zfar)
  ELSE LET halfH == cam.orthoScale
           halfW == FMul(halfH, aspect)
       IN orthographic(FNeg(halfW), halfW, FNeg(halfH), halfH,
                       cam.znear, cam.zfar)

\* ------------------------------------------------------------------------
\* core/Renderer.cpp
\* ------------------------------------------------------------------------
\* clipToNear without the early `return true' for two endpoints in front.
clipToNearNoAccept(a, b, nearZ) ==
  LET aIn == FGe(FNeg(a.z), nearZ)
      bIn == FGe(FNeg(b.z), nearZ)
      t   == FDiv(FAdd(nearZ, a.z), FSub(a.z, b.z))
      i   == Vec3(FAdd(a.x, FMul(FSub(b.x, a.x), t)),
                  FAdd(a.y, FMul(FSub(b.y, a.y), t)),
                  FAdd(a.z, FMul(FSub(b.z, a.z), t)))
  IN IF ~aIn /\ ~bIn THEN [ok |-> FALSE, a |-> a, b |-> b]
     ELSE IF ~aIn THEN [ok |-> TRUE, a |-> i, b |-> b]
     ELSE [ok |-> TRUE, a |-> a, b |-> i]

\* Renderer::clipToNear; the result is [ok, a, b], a and b as the call
\* leaves its two reference parameters.
clipToNear(a, b, nearZ) ==
  LET da  == FNeg(a.z)
      db  == FNeg(b.z)
      aIn == FGe(da, nearZ)
      bIn == FGe(db, nearZ)
      t   == FDiv(FAdd(nearZ, a.z), FSub(a.z, b.z))
      i   == Vec3(FAdd(a.x, FMul(FSub(b.x, a.x), t)),
                  FAdd(a.y, FMul(FSub(b.y, a.y), t)),
                  FAdd(a.z, FMul(FSub(b.z, a.z), t)))
  IN IF aIn /\ bIn THEN [ok |-> TRUE, a |-> a, b |-> b]
     ELSE IF ~aIn /\ ~bIn THEN [ok |-> FALSE, a |-> a, b |-> b]
     ELSE IF ~aIn THEN [ok |-> TRUE, a |-> i, b |-> b]
     ELSE [ok |-> TRUE, a |-> a, b |-> i]

Eps6 == Lit(1, 1000000)

\* Renderer::projectToScreen with m_width = W, m_height = H: [ok, p].
Renderer_projectToScreen(clip, W, H) ==
  LET w    == clip.w
      ndcX == FDiv(clip.x, w)
      ndcY == FDiv(clip.y, w)
      px   == FMul(FAdd(FMul(ndcX, Half), Half), IntF(W))
      py   == FMul(FSub(One, FAdd(FMul(ndcY, Half), Half)), IntF(H))
  IN IF FLt(FAbs(w), Eps6) THEN [ok |-> FALSE, p |-> Vec2(Zero, Zero)]
     ELSE [ok |-> IsFinite(px) /\ IsFinite(py), p |-> Vec2(px, py)]

\* The camera-space endpoints of the edge e, as the loop body computes
\* them (vm is view * m_model).
cameraSpace(vm, mesh, e) ==
  LET va == mesh.vertices[e[1] + 1]
      vb == mesh.vertices[e[2] + 1]
      a4 == mul(vm, Vec4(va.x, va.y, va.z, One))
      b4 == mul(vm, Vec4(vb.x, vb.y, vb.z, One))
  IN [ac |-> Vec3(a4.x, a4.y, a4.z), bc |-> Vec3(b4.x, b4.y, b4.z)]

\* Clip-space position and screen point of a camera-space point.
projectPoint(proj, c, W, H) ==
  Renderer_projectToScreen(mul(proj, Vec4(c.x, c.y, c.z, One)), W, H)

\* emitLine treating a failed projection as fatal to the batch.
emitLineOrReset(out, ok, line) == IF ok THEN Append(out, line) ELSE <<>>

\* out after the closing `if' of the loop body: the line is pushed when
\* both endpoints project, and nothing is done otherwise.
emitLine(out, ok, line) == IF ok THEN Append(out, line) ELSE out

\* The two projectToScreen calls of the loop body on the clipped endpoints.
projectEdge(proj, cs, cl, W, H) ==
  LET sa == projectPoint(proj, cl.a, W, H)
      sb == projectPoint(proj, cl.b, W, H)
  IN [ac |-> cs.ac, bc |-> cs.bc, clip |-> cl,
      emitted |-> cl.ok /\ sa.ok /\ sb.ok,
      line |-> [a |-> sa.p, b |-> sb.p]]

\* One pass of the loop body of buildProjectedLines over the edge e:
\* the camera-space endpoints, the clip result, whether a line is emitted.
renderEdge(vm, proj, mesh, nearZ, W, H, e) ==
  LET cs == cameraSpace(vm, mesh, e)
  IN projectEdge(proj, cs, clipToNear(cs.ac, cs.bc, nearZ), W, H)

RECURSIVE linesFrom(_, _, _, _, _, _, _, _)
linesFrom(vm, proj, mesh, nearZ, W, H, i, out) ==
  IF i > Len(mesh.edges) THEN out
  ELSE LET r == renderEdge(vm, proj, mesh, nearZ, W, H, mesh.edges[i])
       IN linesFrom(vm, proj, mesh, nearZ, W, H, i + 1,
                    emitLine(out, r.emitted, r.line))

\* Renderer::buildProjectedLines, m_model = model, viewport W x H.
buildProjectedLines(viewM, proj, model, mesh, nearZ, W, H) ==
  linesFrom(MatMul(viewM, model), proj, mesh, nearZ, W, H, 1, <<>>)

\* ------------------------------------------------------------------------
\* apps/render_qt.cpp: the viewer's own clip and projection helpers.
\* ------------------------------------------------------------------------
clipNear(a, b, znear) ==
  LET da  == FNeg(a.z)
      db  == FNeg(b.z)
      aIn == FGe(da, znear)
      bIn == FGe(db, znear)
      t   == FDiv(FSub(FNeg(znear), a.z), FSub(b.z, a.z))
      i   == Vec3(FAdd(a.x, FMul(FSub(b.x, a.x), t)),
                  FAdd(a.y, FMul(FSub(b.y, a.y), t)),
                  FAdd(a.z, FMul(FSub(b.z, a.z), t)))
  IN IF aIn /\ bIn THEN [ok |-> TRUE, a |-> a, b |-> b]
     ELSE IF ~aIn /\ ~bIn THEN [ok |-> FALSE, a |-> a, b |-> b]
     ELSE IF ~aIn THEN [ok |-> TRUE, a |-> i, b |-> b]
     ELSE [ok |-> TRUE, a |-> a, b |-> i]

\* The checks and the viewport mapping of the static projectToScreen, on
\* the clip-space position: [ok, p].
clipToScreen(clip, W, H) ==
  LET ndcX == FDiv(clip.x, clip.w)
      ndcY == FDiv(clip.y, clip.w)
      px   == FMul(FAdd(FMul(ndcX, Half), Half), IntF(W))
      py   == FMul(FSub(One, FAdd(FMul(ndcY, Half), Half)), IntF(H))
  IN IF FLt(FAbs(clip.w), Eps6) THEN [ok |-> FALSE, p |-> Vec2(Zero, Zero)]
     ELSE IF ~IsFinite(ndcX) \/ ~IsFinite(ndcY)
          THEN [ok |-> FALSE, p |-> Vec2(Zero, Zero)]
     ELSE [ok |-> TRUE, p |-> Vec2(px, py)]

\* static projectToScreen(c, P, W, H, s): [ok, p].
projectToScreen(c, P, W, H) ==
  clipToScreen(mul(P, Vec4(c.x, c.y, c.z, One)), W, H)

\* ------------------------------------------------------------------------
\* apps/render_qt.cpp: frameCameraToMesh.
\* ------------------------------------------------------------------------
\* The loop over mesh.vertices: the bounds [mn, mx] after the vertices
\* i, i+1, ...
RECURSIVE boundsFrom(_, _, _)
boundsFrom(vs, i, b) ==
  IF i > Len(vs) THEN b
  ELSE boundsFrom(vs, i + 1,
         [mn |-> Vec3(FMin(b.mn.x, vs[i].x), FMin(b.mn.y, vs[i].y),
                      FMin(b.mn.z, vs[i].z)),
          mx |-> Vec3(FMax(b.mx.x, vs[i].x), FMax(b.mx.y, vs[i].y),
                      FMax(b.mx.z, vs[i].z))])

\* r = std::max({ex, ey, ez}) * 0.5f; if (r < 1e-4f) r = 1.0f.
frameRadius(b) ==
  LET r == FMul(FMax(FMax(FSub(b.mx.x, b.mn.x), FSub(b.mx.y, b.mn.y)),
                     FSub(b.mx.z, b.mn.z)), Half)
  IN IF FLt(r, Lit(1, 10000)) THEN One ELSE r

\* std::max(0.0005f * cam.radius, 0.001f), in frameCameraToMesh and at the
\* top of paintEvent.
nearFor(radius) == FMax(FMul(Lit(5, 10000), radius), Lit(1, 1000))

\* The assignments to cam, from the bounds b and the radius r.
framed(cam, b, r) ==
  [cam EXCEPT
     !.target = Vec3(FMul(FAdd(b.mn.x, b.mx.x), Half),
                     FMul(FAdd(b.mn.y, b.mx.y), Half),
                     FMul(FAdd(b.mn.z, b.mx.z), Half)),
     !.radius = FMax(FMul(IntF(3), r), Half),
     !.orthoScale = FMul(r, Lit(12, 10)),
     !.fovY = "60deg",
     !.znear = nearFor(FMax(FMul(IntF(3), r), Half)),
     !.zfar = IntF(20000)]

boundsOf(vs) ==
  boundsFrom(vs, 1, [mn |-> Vec3(Inf(1), Inf(1), Inf(1)),
                     mx |-> Vec3(Inf(-1), Inf(-1), Inf(-1))])

frameWith(cam, b) == framed(cam, b, frameRadius(b))

frameCameraToMesh(cam, mesh) ==
  IF mesh.vertices = <<>> THEN cam ELSE frameWith(cam, boundsOf(mesh.vertices))

\* ------------------------------------------------------------------------
\* apps/render_qt.cpp: the Viewer.  The widget is 1280 x 800 (resize in
\* the constructor).  maxLinesCap is the configured maximum of the line
\* batch.  The fields from lineEdge on are bookkeeping of the model: the
\* position in mesh.edges of the edge each line of the batch came from,
\* the position of the last edge the loop of the last paintEvent looked
\* at, the camera, the LOD threshold and the fastMode the last paintEvent
\* worked with, the number of paint, wheel and drag events so far, and
\* the number of them a run goes up to (0: any number).
\* ------------------------------------------------------------------------
Viewer(mesh, cap, maxSteps) ==
  [pc |-> "open", mesh |-> mesh,
   cam |-> frameCameraToMesh(CameraOrbit, mesh),
   W |-> 1280, H |-> 800,
   camVerts |-> <<>>, screens |-> <<>>, valid |-> <<>>, lines |-> <<>>,
   L |-> FALSE, R |-> FALSE,
   targetFps |-> 60, antialias |-> FALSE, fastMode |-> TRUE,
   lodPx |-> Lit(15, 10), maxLinesCap |-> cap,
   clockValid |-> FALSE, smoothedMs |-> IntF(33),
   lineEdge |-> <<>>, scanned |-> 0,
   camUsed |-> CameraOrbit, lodUsed |-> Lit(15, 10), fastUsed |-> TRUE,
   band |-> "none",
   steps |-> 0, maxSteps |-> maxSteps]

Xyz(c4) == Vec3(c4.x, c4.y, c4.z)

\* 1) world -> camera space for all verts: camVerts after the loop, from
\* the vertex i on.
RECURSIVE cameraVertsFrom(_, _, _, _)
cameraVertsFrom(V, vs, i, cv) ==
  IF i > Len(vs) THEN cv
  ELSE cameraVertsFrom(V, vs, i + 1,
         Append(cv, Xyz(mul(V, Vec4(vs[i].x, vs[i].y, vs[i].z, One)))))

cameraVerts(V, vs) == cameraVertsFrom(V, vs, 1, <<>>)

NoScreen == [ok |-> FALSE, p |-> Vec2(Zero, Zero)]

\* 2) project the verts in front of the near plane: [ok, p] per vertex,
\* from the vertex i on.
RECURSIVE preProjectFrom(_, _, _, _, _, _, _)
preProjectFrom(cv, P, znear, W, H, i, pre) ==
  IF i > Len(cv) THEN pre
  ELSE preProjectFrom(cv, P, znear, W, H, i + 1,
         Append(pre, IF FGe(FNeg(cv[i].z), znear)
                     THEN projectToScreen(cv[i], P, W, H)
                     ELSE NoScreen))

preProject(cv, P, znear, W, H) == preProjectFrom(cv, P, znear, W, H, 1, <<>>)

\* screens.resize(N), then screens[i] = s for the verts that projected;
\* valid.assign(N, 0), then valid[i] = 1 for them.
RECURSIVE newScreensFrom(_, _, _, _)
newScreensFrom(old, pre, i, scr) ==
  IF i > Len(pre) THEN scr
  ELSE newScreensFrom(old, pre, i + 1,
         Append(scr, IF pre[i].ok THEN pre[i].p
                     ELSE IF i <= Len(old) THEN old[i]
                     ELSE Vec2(Zero, Zero)))

newScreens(old, pre) == newScreensFrom(old, pre, 1, <<>>)

RECURSIVE newValidFrom(_, _, _)
newValidFrom(pre, i, val) ==
  IF i > Len(pre) THEN val
  ELSE newValidFrom(pre, i + 1, Append(val, pre[i].ok))

newValid(pre) == newValidFrom(pre, 1, <<>>)

\* The else branch of the loop body: clipNear, then the two projections.
projectBoth(cl, P, W, H) ==
  LET sa == projectToScreen(cl.a, P, W, H)
      sb == projectToScreen(cl.b, P, W, H)
  IN [ok |-> cl.ok /\ sa.ok /\ sb.ok, sa |-> sa.p, sb |-> sb.p]

clipProject(a, b, P, znear, W, H) ==
  projectBoth(clipNear(a, b, znear), P, W, H)

\* edgeScreens with `valid[ia] || valid[ib]' for the test of the cache.
edgeScreensEither(f, e) ==
  IF f.valid[e[1] + 1] \/ f.valid[e[2] + 1]
  THEN [ok |-> TRUE, sa |-> f.screens[e[1] + 1], sb |-> f.screens[e[2] + 1]]
  ELSE clipProject(f.camVerts[e[1] + 1], f.camVerts[e[2] + 1],
                   f.P, f.znear, f.W, f.H)

\* sa and sb of the edge e in the frame f, or ok = FALSE for `continue'.
edgeScreens(f, e) ==
  IF f.valid[e[1] + 1] /\ f.valid[e[2] + 1]
  THEN [ok |-> TRUE, sa |-> f.screens[e[1] + 1], sb |-> f.screens[e[2] + 1]]
  ELSE clipProject(f.camVerts[e[1] + 1], f.camVerts[e[2] + 1],
                   f.P, f.znear, f.W, f.H)

\* dx*dx + dy*dy.
pixelLen2(sa, sb) ==
  LET dx == FSub(sa.x, sb.x)
      dy == FSub(sa.y, sb.y)
  IN FAdd(FMul(dx, dx), FMul(dy, dy))

\* lodSkips keeping the lines shorter than the threshold.
lodSkipsLong(fastMode, sa, sb, lod2) ==
  fastMode /\ FGt(pixelLen2(sa, sb), lod2)

\* if (fastMode && (dx*dx + dy*dy) < lod2) continue.
lodSkips(fastMode, sa, sb, lod2) ==
  fastMode /\ FLt(pixelLen2(sa, sb), lod2)

\* 3) the loop over mesh.edges from the position k on, with the batch b
\* built so far; s is edgeScreens of the edge at k.
RECURSIVE lineLoop(_, _, _), lineStep(_, _, _, _)
lineStep(f, k, b, s) ==
  IF ~s.ok \/ lodSkips(f.fastMode, s.sa, s.sb, f.lod2)
  THEN lineLoop(f, k + 1, [b EXCEPT !.scanned = k])
  ELSE IF Len(b.lines) + 1 >= f.cap
       THEN [lines |-> Append(b.lines, [a |-> s.sa, b |-> s.sb]),
             lineEdge |-> Append(b.lineEdge, k), scanned |-> k]
       ELSE lineLoop(f, k + 1,
                     [lines |-> Append(b.lines, [a |-> s.sa, b |-> s.sb]),
                      lineEdge |-> Append(b.lineEdge, k), scanned |-> k])

lineLoop(f, k, b) ==
  IF k > Len(f.mesh.edges) THEN b
  ELSE lineStep(f, k, b, edgeScreens(f, f.mesh.edges[k]))

NoLines == [lines |-> <<>>, lineEdge |-> <<>>, scanned |-> 0]

\* The line batch of a frame.
buildLines(f) == lineLoop(f, 1, NoLines)

\* smoothedMs = 0.85 * smoothedMs + 0.15 * ms.
smooth(smoothedMs, ms) ==
  FAdd(FMul(Lit(85, 100), smoothedMs), FMul(Lit(15, 100), ms))

\* adaptLod with `else if (lodPx > 0.25f)': the test of the frame time
\* left out of the second branch.
adaptLodElseDown(lodPx, smoothedMs, targetFps) ==
  LET goal == FDiv(IntF(1000), IntF(targetFps)) IN
  IF FGt(smoothedMs, FMul(goal, Lit(105, 100))) /\ FLt(lodPx, IntF(5))
  THEN FMul(lodPx, Lit(11, 10))
  ELSE IF FGt(lodPx, Lit(25, 100))
       THEN FMul(lodPx, Lit(9, 10))
       ELSE lodPx

\* 5) adapt LOD to hold target FPS.
adaptLod(lodPx, smoothedMs, targetFps) ==
  LET goal == FDiv(IntF(1000), IntF(targetFps)) IN
  IF FGt(smoothedMs, FMul(goal, Lit(105, 100))) /\ FLt(lodPx, IntF(5))
  THEN FMul(lodPx, Lit(11, 10))
  ELSE IF FLt(smoothedMs, FMul(goal, Lit(80, 100))) /\ FGt(lodPx, Lit(25, 100))
       THEN FMul(lodPx, Lit(9, 10))
       ELSE lodPx

\* Where the smoothed frame time of a frame lay against the budget
\* goal = 1000 / targetFps: over goal * 1.05, under goal * 0.80, or within.
bandOf(smoothedMs, targetFps) ==
  LET goal == FDiv(IntF(1000), IntF(targetFps)) IN
  IF FGt(smoothedMs, FMul(goal, Lit(105, 100))) THEN "over"
  ELSE IF FLt(smoothedMs, FMul(goal, Lit(80, 100))) THEN "under"
  ELSE "within"

\* What the loop over the edges reads: the caches of the frame and the
\* knobs, for the camera cam, projection P, LOD threshold lodPx.
frameOf(v, cam, cv, P, pre, lodPx) ==
  [mesh |-> v.mesh, camVerts |-> cv,
   screens |-> newScreens(v.screens, pre), valid |-> newValid(pre),
   P |-> P, znear |-> cam.znear, W |-> v.W, H |-> v.H,
   fastMode |-> v.fastMode, lod2 |-> FMul(lodPx, lodPx),
   cap |-> v.maxLinesCap]

\* The members after paintEvent: the frame f, its batch b, the new
\* smoothed frame time s.
afterPaint(v, cam, f, b, s) ==
  [v EXCEPT !.cam = cam, !.clockValid = TRUE,
            !.camVerts = f.camVerts, !.screens = f.screens,
            !.valid = f.valid,
            !.lines = b.lines, !.lineEdge = b.lineEdge,
            !.scanned = b.scanned,
            !.camUsed = cam, !.lodUsed = v.lodPx, !.fastUsed = v.fastMode,
            !.smoothedMs = s, !.band = bandOf(s, v.targetFps),
            !.lodPx = adaptLod(v.lodPx, s, v.targetFps)]

paintBatch(v, cam, f, ms) ==
  afterPaint(v, cam, f, buildLines(f), smooth(v.smoothedMs, ms))

paintVerts(v, cam, cv, P, ms) ==
  paintBatch(v, cam,
             frameOf(v, cam, cv, P, preProject(cv, P, cam.znear, v.W, v.H),
                     v.lodPx),
             ms)

paintWith(v, cam, ms) ==
  paintVerts(v, cam, cameraVerts(view(cam), v.mesh.vertices),
             projection(cam, FDiv(IntF(v.W), IntF(v.H))), ms)

\* Viewer::paintEvent, for a frame that took ms milliseconds.
paintEvent(v, ms) ==
  paintWith(v, [v.cam EXCEPT !.znear = nearFor(v.cam.radius)], ms)

\* Viewer::wheelEvent; up is angleDelta().y() > 0.
wheelEvent(v, up) ==
  IF v.cam.perspective
  THEN [v EXCEPT !.cam.radius =
          FMax(Lit(2, 10), FMul(@, IF up THEN Lit(9, 10) ELSE Lit(11, 10)))]
  ELSE [v EXCEPT !.cam.orthoScale =
          FMax(Lit(2, 100), FMul(@, IF up THEN Lit(9, 10) ELSE Lit(11, 10)))]

\* Viewer::mousePressEvent and mouseReleaseEvent.
mousePressEvent(v, button) ==
  [v EXCEPT !.L = IF button = "left" THEN TRUE ELSE @,
            !.R = IF button = "right" THEN TRUE ELSE @]

mouseReleaseEvent(v, button) ==
  [v EXCEPT !.L = IF button = "left" THEN FALSE ELSE @,
            !.R = IF button = "right" THEN FALSE ELSE @]

\* cam.yaw -= d.x() * 0.01f and cam.pitch -= d.y() * 0.01f with the clamp
\* to [-1.55, 1.55], for the angles and the mouse movements of the runs.
YawAfter(yaw, dx) ==
  CASE dx = 0 -> yaw
    [] yaw = "0.8" /\ dx = 80 -> "6e-8"
    [] yaw = "6e-8" /\ dx = -80 -> "0.8"

PitchAfter(pitch, dy) ==
  CASE dy = 0 -> pitch
    [] dy = -400 -> "1.55"
    [] dy = 400 -> "-1.55"

Drags(yaw) ==
  { <<dx, dy>> : dx \in (IF yaw = "0.8" THEN {0, 80} ELSE {0, -80}),
                 dy \in {0, -400} }

\* The branch `if (R)' of mouseMoveEvent: the new cam.target.
panAlong(cam, fwd, right, d) ==
  LET k == FMul(Lit(2, 1000), cam.radius)
  IN VAdd(VAdd(cam.target, VScale(right, FMul(IntF(-d[1]), k))),
          VScale(cross(right, fwd), FMul(IntF(d[2]), k)))

panned(cam, d) ==
  LET fwd == normalize(VSub(cam.target, position(cam)))
  IN panAlong(cam, fwd, normalize(cross(fwd, Vec3(Zero, One, Zero))), d)

turned(v, d) ==
  IF v.L THEN [v EXCEPT !.cam.yaw = YawAfter(@, d[1]),
                        !.cam.pitch = PitchAfter(@, d[2])]
  ELSE v

pannedIf(v, d) ==
  IF v.R THEN [v EXCEPT !.cam.target = panned(v.cam, d)] ELSE v

\* Viewer::mouseMoveEvent, the mouse having moved by d = e->pos() - last.
mouseMoveEvent(v, d) == pannedIf(turned(v, d), d)

\* Viewer::keyPressEvent.
keyPressEvent(v, key) ==
  CASE key = "Esc" -> [v EXCEPT !.pc = "closed"]
    [] key = "O" -> [v EXCEPT !.cam.perspective = ~@]
    [] key = "R" -> [v EXCEPT !.cam = frameCameraToMesh(CameraOrbit, v.mesh)]
    [] key = "A" -> [v EXCEPT !.antialias = ~@]
    [] key = "F" -> [v EXCEPT !.fastMode = ~@]
    [] key = "T" -> [v EXCEPT !.targetFps = IF @ = 30 THEN 60 ELSE 30]

\* ------------------------------------------------------------------------
\* core/Geometry.h: the edge key and the deduplication.
\* A uint32_t is kept as <<high 16 bits, low 16 bits>>, and the 64-bit key
\* (uint64_t(a) << 32) | uint32_t(b) as <<uint32 of a, uint32 of b>>: the
\* shift drops the sign extension of a, the or fills the low word.
\* ------------------------------------------------------------------------
U32(i) ==
  IF i >= 0 THEN <<i \div 65536, i % 65536>>
  ELSE LET c == (i + 2147483647) + 1
       IN <<32768 + (c \div 65536), c % 65536>>

\* edgeKey without the swap that puts the smaller index first.
edgeKeyUnordered(a, b) == <<U32(a), U32(b)>>

edgeKey(a, b) ==
  IF a > b THEN <<U32(b), U32(a)>> ELSE <<U32(a), U32(b)>>

RECURSIVE dedupFrom(_, _, _, _)
dedupFrom(edges, i, seen, unique) ==
  IF i > Len(edges) THEN unique
  ELSE LET k == edgeKey(edges[i][1], edges[i][2]) IN
       IF k \in seen THEN dedupFrom(edges, i + 1, seen, unique)
       ELSE dedupFrom(edges, i + 1, seen \cup {k}, Append(unique, edges[i]))

dedupEdges(edges) == dedupFrom(edges, 1, {}, <<>>)

\* ------------------------------------------------------------------------
\* core/ObjLoader.cpp
\* ------------------------------------------------------------------------
RECURSIVE faceEdgesFrom(_, _, _)
faceEdgesFrom(f, i, edges) ==
  IF i >= Len(f) THEN edges
  ELSE LET a == f[i + 1]
           b == f[((i + 1) % Len(f)) + 1]
       IN faceEdgesFrom(f, i + 1,
                        IF a = b THEN edges ELSE Append(edges, <<a, b>>))

\* addFaceEdges with the loop stopped at i < n - 1: no closing edge.
addFaceEdgesOpen(f, edges) ==
  IF Len(f) < 2 THEN edges ELSE faceEdgesFrom(SubSeq(f, 1, Len(f) - 1), 0, edges)

addFaceEdges(f, edges) ==
  IF Len(f) < 2 THEN edges ELSE faceEdgesFrom(f, 0, edges)

\* A token of a record: a number (k = "num", the integer v), a token that
\* is no number (k = "bad": operator>> fails on it, std::stoi throws
\* std::invalid_argument), or, in a face record, a token whose part before
\* the first '/' is empty (k = "empty", as in "/2").
Num(v)   == [k |-> "num", v |-> v]
BadTok   == [k |-> "bad", v |-> 0]
EmptyTok == [k |-> "empty", v |-> 0]

\* iss >> v.x >> v.y >> v.z on a value-initialised Vec3f: an extraction
\* that fails stores 0 and sets failbit, and the later ones do nothing.
parseVertex(toks) ==
  LET ok1 == Len(toks) >= 1 /\ toks[1].k = "num"
      ok2 == ok1 /\ Len(toks) >= 2 /\ toks[2].k = "num"
      ok3 == ok2 /\ Len(toks) >= 3 /\ toks[3].k = "num"
  IN [x |-> IF ok1 THEN IntF(toks[1].v) ELSE Zero,
      y |-> IF ok2 THEN IntF(toks[2].v) ELSE Zero,
      z |-> IF ok3 THEN IntF(toks[3].v) ELSE Zero]

\* The token loop with `idx = size + idx' for a negative index, the + 1
\* forgotten.
RECURSIVE parseFaceShifted(_, _, _, _)
parseFaceShifted(toks, i, nverts, f) ==
  IF i > Len(toks) THEN [threw |-> FALSE, f |-> f]
  ELSE IF toks[i].k = "empty" THEN parseFaceShifted(toks, i + 1, nverts, f)
  ELSE IF toks[i].k = "bad" THEN [threw |-> TRUE, f |-> f]
  ELSE LET idx  == toks[i].v
           idx1 == IF idx < 0 THEN nverts + idx ELSE idx
       IN parseFaceShifted(toks, i + 1, nverts, Append(f, idx1 - 1))

\* The token loop of a face record: the resolved 0-based indices, or
\* "threw" when std::stoi meets a token that is no number.
RECURSIVE parseFace(_, _, _, _)
parseFace(toks, i, nverts, f) ==
  IF i > Len(toks) THEN [threw |-> FALSE, f |-> f]
  ELSE IF toks[i].k = "empty" THEN parseFace(toks, i + 1, nverts, f)
  ELSE IF toks[i].k = "bad" THEN [threw |-> TRUE, f |-> f]
  ELSE LET idx  == toks[i].v
           idx1 == IF idx < 0 THEN nverts + idx + 1 ELSE idx
       IN parseFace(toks, i + 1, nverts, Append(f, idx1 - 1))

\* ------------------------------------------------------------------------
\* Bounds and inputs of the loader runs.
\* ------------------------------------------------------------------------
MaxRecords == 5
MaxTokens  == 4

\* The index tokens of the face records fed to the loader, the malformed
\* ones aside; and the vertex records: a well-formed one and one whose
\* second coordinate is no number.
IndexTokens   == {Num(i) : i \in {-1, 1, 2, 3, 4}}
FaceTokens    == IndexTokens \cup {BadTok, EmptyTok}
VertexRecords == { <<Num(1), Num(2), Num(3)>>,
                   <<Num(1), BadTok, Num(3)>> }

HasBad(toks) == \E i \in 1..Len(toks) : toks[i].k = "bad"

VARIABLES
  ret,       \* loadOBJ: "start", "reading", then "true" / "false" (the value
             \* returned) or "threw" (left by an exception)
  out,       \* the caller's Mesh: [vertices, edges]
  edges,     \* loadOBJ's local edge vector
  nrec,      \* records read so far
  ntok,      \* face tokens read so far
  sawBad,    \* history: a record read so far held a token that is no number
  rawEdges,  \* history: the edge vector as dedupEdges received it
  lastFace,  \* history, kept in the runs that observe the face records:
             \* the record just read when it was a face record (its tokens,
             \* the vertex count and the edges it met, the indices it
             \* resolved), NoFace after any other record; NoTrace when the
             \* run keeps no such history
  cli,       \* render_cli's main: its locals and its position
  vw         \* the viewer: the fields of the Viewer object

ldvars == <<ret, out, edges, nrec, ntok, sawBad, rawEdges, lastFace>>
vars == <<ret, out, edges, nrec, ntok, sawBad, rawEdges, lastFace, cli, vw>>

EmptyMesh == [vertices |-> <<>>, edges |-> <<>>]

\* ------------------------------------------------------------------------
\* apps/render_cli.cpp: main.  The camera after the defaults of lines
\* 69-76, the options, the load, and the call of buildProjectedLines, whose
\* loop is taken one edge at a time.
\* ------------------------------------------------------------------------
MaxEdges == 3

CliCamera ==
  [CameraOrbit EXCEPT !.radius = Lit(35, 10)]

\* The command lines of the runs: eyeZ is the z of `--eye 0 0 z' (Zero:
\* option absent), fov the `--fov' angle, ortho the `--ortho' scale (Zero:
\* option absent); `--size' is absent (1000 x 800).
Args(eyeZ, fov, ortho) == [eyeZ |-> eyeZ, fov |-> fov, ortho |-> ortho]
CliArgs ==
  { Args(Zero, "60deg", Zero),
    Args(IntF(2), "60deg", Zero),
    Args(IntF(2), "90deg", Zero),
    Args(Zero, "60deg", IntF(2)),
    Args(IntF(2), "60deg", Lit(1, 1024)) }

\* The option loop of main, for an eye on the +z axis and the target at
\* the origin: radius = length(d), pitch = asin(0) = 0, yaw = atan2(z, 0).
applyArgs(cam, args) ==
  LET c1 == IF args.eyeZ = Zero THEN cam
            ELSE [cam EXCEPT
                    !.radius = length(VSub(Vec3(Zero, Zero, args.eyeZ),
                                           cam.target)),
                    !.pitch = "0", !.yaw = "pi/2"]
      c2 == [c1 EXCEPT !.fovY = args.fov]
  IN IF args.ortho = Zero THEN c2
     ELSE [c2 EXCEPT !.perspective = FALSE, !.orthoScale = args.ortho]

\* The vertices of the meshes of the runs (world space), and the edges the
\* meshes are made of: for an eye at (0, 0, 2) vertex 1 and 4 lie in front
\* of the camera, 2 and 3 behind it, 5 and 6 far behind and far in front,
\* and 7 far to the side.
Huge == Bits(12582912, 103)
PoolVertices ==
  << Vec3(Zero, Zero, Zero),
     Vec3(One, One, IntF(3)),
     Vec3(Zero, One, IntF(4)),
     Vec3(One, Zero, FNeg(One)),
     Vec3(Zero, Zero, IntF(66)),
     Vec3(Zero, Zero, IntF(-62)),
     Vec3(Huge, Zero, Zero) >>
PoolEdges == { <<0, 3>>, <<1, 2>>, <<0, 1>>, <<1, 0>>, <<5, 4>>, <<0, 6>> }

\* The edge lists of up to n edges of the pool, none twice (in either
\* direction), as a successful load leaves them.
RECURSIVE EdgeLists(_)
EdgeLists(n) ==
  IF n = 0 THEN { <<>> }
  ELSE LET shorter == EdgeLists(n - 1) IN
       shorter \cup
       { Append(l, e) : l \in {x \in shorter : Len(x) = n - 1},
                        e \in PoolEdges }

NoRepeat(l) ==
  \A i, j \in 1..Len(l) :
    i < j => ~(   (l[i][1] = l[j][1] /\ l[i][2] = l[j][2])
               \/ (l[i][1] = l[j][2] /\ l[i][2] = l[j][1]))

PoolMeshes ==
  { [vertices |-> PoolVertices, edges |-> l] :
      l \in {x \in EdgeLists(MaxEdges) : NoRepeat(x)} }

NoEdge ==
  [valid |-> FALSE, e |-> <<0, 0>>,
   r |-> [ac |-> Vec3(Zero, Zero, Zero), bc |-> Vec3(Zero, Zero, Zero),
          clip |-> [ok |-> FALSE, a |-> Vec3(Zero, Zero, Zero),
                    b |-> Vec3(Zero, Zero, Zero)],
          emitted |-> FALSE,
          line |-> [a |-> Vec2(Zero, Zero), b |-> Vec2(Zero, Zero)]]]

CliStart ==
  cli = [pc |-> "main", cam |-> CliCamera, W |-> 1000, H |-> 800,
         mesh |-> EmptyMesh, vm |-> identity, proj |-> identity,
         i |-> 0, lines |-> <<>>, last |-> NoEdge]

\* main up to the loop of buildProjectedLines: options, load, Renderer
\* renderer(W, H), view, proj, and vm = view * m_model with the identity
\* as model matrix.
CliMain(args, mesh) ==
  /\ cli.pc = "main"
  /\ LET cam == applyArgs(cli.cam, args) IN
     cli' = [cli EXCEPT
               !.pc = "loop", !.cam = cam, !.mesh = mesh,
               !.vm = MatMul(view(cam), identity),
               !.proj = projection(cam, FDiv(IntF(cli.W), IntF(cli.H)))]
  /\ UNCHANGED <<ldvars, vw>>

\* One iteration of `for (const auto &e : mesh.edges)'.
RenderEdge ==
  /\ cli.pc = "loop"
  /\ cli.i < Len(cli.mesh.edges)
  /\ \E r \in { renderEdge(cli.vm, cli.proj, cli.mesh, cli.cam.znear,
                            cli.W, cli.H, cli.mesh.edges[cli.i + 1]) } :
       cli' = [cli EXCEPT
                 !.i = cli.i + 1,
                 !.lines = emitLine(cli.lines, r.emitted, r.line),
                 !.last = [valid |-> TRUE, e |-> cli.mesh.edges[cli.i + 1],
                           r |-> r]]
  /\ UNCHANGED <<ldvars, vw>>

\* `return out'.
RenderReturn ==
  /\ cli.pc = "loop"
  /\ cli.i = Len(cli.mesh.edges)
  /\ cli' = [cli EXCEPT !.pc = "drawn"]
  /\ UNCHANGED <<ldvars, vw>>

\* No history of the face records is kept.
NoTrace == [toks |-> <<>>, nverts |-> -1, before |-> <<>>, threw |-> FALSE, f |-> <<>>]

\* The record just read, if any, was no face record.
NoFace == [toks |-> <<>>, nverts |-> 0, before |-> <<>>, threw |-> FALSE, f |-> <<>>]

LoaderStart ==
  /\ ret = "start"
  /\ out = EmptyMesh
  /\ edges = <<>>
  /\ nrec = 0
  /\ ntok = 0
  /\ sawBad = FALSE
  /\ rawEdges = <<>>
  /\ lastFace = NoTrace

\* std::ifstream in(path): the file opens, or loadOBJ returns false.
OpenFile ==
  /\ ret = "start"
  /\ ret' = "reading"
  /\ UNCHANGED <<out, edges, nrec, ntok, sawBad, rawEdges, lastFace, cli, vw>>

OpenFails ==
  /\ ret = "start"
  /\ ret' = "false"
  /\ UNCHANGED <<out, edges, nrec, ntok, sawBad, rawEdges, lastFace, cli, vw>>

\* A blank line, a comment, or a record with another tag.
ReadIgnored ==
  /\ ret = "reading"
  /\ nrec < MaxRecords
  /\ nrec' = nrec + 1
  /\ lastFace' = IF lastFace = NoTrace THEN NoTrace ELSE NoFace
  /\ UNCHANGED <<ret, out, edges, ntok, sawBad, rawEdges, cli, vw>>

\* tag == "v"
ReadVertex(toks) ==
  /\ ret = "reading"
  /\ nrec < MaxRecords
  /\ nrec' = nrec + 1
  /\ out' = [out EXCEPT !.vertices = Append(@, parseVertex(toks))]
  /\ sawBad' = (sawBad \/ HasBad(toks))
  /\ lastFace' = IF lastFace = NoTrace THEN NoTrace ELSE NoFace
  /\ UNCHANGED <<ret, edges, ntok, rawEdges, cli, vw>>

\* tag == "f": the tokens are resolved against the vertices read so far;
\* std::stoi's exception is caught nowhere and leaves loadOBJ.
ReadFace(toks) ==
  /\ ret = "reading"
  /\ nrec < MaxRecords
  /\ ntok + Len(toks) <= MaxTokens
  /\ nrec' = nrec + 1
  /\ ntok' = ntok + Len(toks)
  /\ \E r \in { parseFace(toks, 1, Len(out.vertices), <<>>) } :
       /\ lastFace' = IF lastFace = NoTrace THEN NoTrace
                      ELSE [toks |-> toks, nverts |-> Len(out.vertices),
                            before |-> edges, threw |-> r.threw, f |-> r.f]
       /\ IF r.threw
          THEN /\ ret' = "threw"
               /\ sawBad' = TRUE
               /\ UNCHANGED edges
          ELSE /\ edges' = IF Len(r.f) >= 2 THEN addFaceEdges(r.f, edges)
                           ELSE edges
               /\ UNCHANGED <<ret, sawBad>>
  /\ UNCHANGED <<out, rawEdges, cli, vw>>

\* End of file: deduplicate, move the edges into the Mesh, return true.
EndOfFile ==
  /\ ret = "reading"
  /\ rawEdges' = edges
  /\ out' = [out EXCEPT !.edges = dedupEdges(edges)]
  /\ edges' = <<>>
  /\ ret' = "true"
  /\ UNCHANGED <<nrec, ntok, sawBad, lastFace, cli, vw>>

FaceRecords(n) == [1..n -> FaceTokens]

LoadNext ==
  \/ OpenFile
  \/ OpenFails
  \/ ReadIgnored
  \/ \E toks \in VertexRecords : ReadVertex(toks)
  \/ \E n \in 1..(MaxTokens - ntok) : \E toks \in FaceRecords(n) : ReadFace(toks)
  \/ EndOfFile

ViewerOff == vw = [pc |-> "off"]

\* ------------------------------------------------------------------------
\* The viewer's runs.
\* ------------------------------------------------------------------------
MaxCap   == 2
MaxSteps == 3

\* The meshes the viewer is started on: the empty one (the load failed),
\* and well-formed meshes over two vertex lists, the second with a vertex
\* 2^25 units away.  The edge <<0, 4>> is a short one.
ViewVertices ==
  << Vec3(Zero, Zero, Zero),
     Vec3(One, Zero, Zero),
     Vec3(One, One, Zero),
     Vec3(Zero, One, One),
     Vec3(Zero, Lit(1, 128), Zero) >>
FarVertices == << Vec3(Zero, Zero, Zero), Vec3(IntF(33554432), Zero, Zero) >>
ViewEdges == << <<0, 1>>, <<0, 4>>, <<1, 2>>, <<0, 3>> >>

\* The subsequences of l with at most n elements.
RECURSIVE SubSeqs(_, _)
SubSeqs(l, n) ==
  IF l = <<>> \/ n = 0 THEN { <<>> }
  ELSE SubSeqs(Tail(l), n) \cup
       { <<Head(l)>> \o t : t \in SubSeqs(Tail(l), n - 1) }

ViewMeshes ==
  { [vertices |-> ViewVertices, edges |-> l] : l \in SubSeqs(ViewEdges, MaxEdges) }
SmallMesh == [vertices |-> ViewVertices, edges |-> << <<0, 1>>, <<0, 4>> >>]
FarMesh   == [vertices |-> FarVertices, edges |-> << <<0, 1>> >>]

\* Measured frame times, in milliseconds.
SlowFrames == { IntF(33) }
FrameTimes == { IntF(20) }

DefaultCap == 180000

\* The run may take one more paint, wheel or drag event, and the count of
\* them after it.
MayStep(v)   == v.maxSteps = 0 \/ v.steps < v.maxSteps
Stepped(v)   == IF v.maxSteps = 0 THEN v.steps ELSE v.steps + 1

\* The timer's update(), and every update() an event handler asks for.
Paint(ms) ==
  /\ vw.pc = "open"
  /\ MayStep(vw)
  /\ vw' = [paintEvent(vw, ms) EXCEPT !.steps = Stepped(vw)]
  /\ UNCHANGED <<ldvars, cli>>

Wheel(up) ==
  /\ vw.pc = "open"
  /\ MayStep(vw)
  /\ vw' = [wheelEvent(vw, up) EXCEPT !.steps = Stepped(vw)]
  /\ UNCHANGED <<ldvars, cli>>

MousePress(button) ==
  /\ vw.pc = "open"
  /\ vw' = mousePressEvent(vw, button)
  /\ UNCHANGED <<ldvars, cli>>

MouseRelease(button) ==
  /\ vw.pc = "open"
  /\ vw' = mouseReleaseEvent(vw, button)
  /\ UNCHANGED <<ldvars, cli>>

\* A mouse movement with a button held; last, the previous position, is
\* left out: the movement d is any.
MouseMove(d) ==
  /\ vw.pc = "open"
  /\ vw.L \/ vw.R
  /\ MayStep(vw)
  /\ vw' = [mouseMoveEvent(vw, d) EXCEPT !.steps = Stepped(vw)]
  /\ UNCHANGED <<ldvars, cli>>

KeyPress(key) ==
  /\ vw.pc = "open"
  /\ vw' = keyPressEvent(vw, key)
  /\ UNCHANGED <<ldvars, cli>>

\* Frames of one viewer per mesh and configured maximum, with the LOD
\* filter switched on and off.
FrameInit ==
  /\ LoaderStart /\ CliStart
  /\ \E mesh \in ViewMeshes, cap \in 0..MaxCap : vw = Viewer(mesh, cap, 0)

FrameNext ==
  \/ \E ms \in SlowFrames : Paint(ms)
  \/ KeyPress("F")

SpecFrame == FrameInit /\ [][FrameNext]_vars

\* The LOD feedback loop: frames of any measured time, and the T key.
LodInit ==
  /\ LoaderStart /\ CliStart
  /\ vw = Viewer(SmallMesh, DefaultCap, 0)

LodNext ==
  \/ \E ms \in FrameTimes : Paint(ms)
  \/ KeyPress("T")

SpecLod == LodInit /\ [][LodNext]_vars

\* The same runs with the timer of the constructor (timer->start(0)), which
\* asks for a frame again and again: weak fairness of the frames,
\* WF_vars(\E ms \in FrameTimes : Paint(ms)), with ENABLED written out as
\* the state predicate it is (a frame is possible and changes a member).
FrameChanges ==
  /\ vw.pc = "open"
  /\ MayStep(vw)
  /\ \E ms \in FrameTimes : [paintEvent(vw, ms) EXCEPT !.steps = Stepped(vw)] # vw

SpecLodFair ==
  /\ SpecLod
  /\ \/ []<>(~FrameChanges)
     \/ []<><<\E ms \in FrameTimes : Paint(ms)>>_vars

\* The camera under the user's events, up to MaxSteps paint, wheel and
\* drag events.
CamInit ==
  /\ LoaderStart /\ CliStart
  /\ \E mesh \in {EmptyMesh, FarMesh} : vw = Viewer(mesh, DefaultCap, MaxSteps)

CamNext ==
  \/ \E up \in BOOLEAN : Wheel(up)
  \/ \E button \in {"left", "right"} : MousePress(button)
  \/ \E button \in {"left", "right"} : MouseRelease(button)
  \/ \E d \in Drags(vw.cam.yaw) : MouseMove(d)
  \/ \E key \in {"O", "R"} : KeyPress(key)
  \/ \E ms \in SlowFrames : Paint(ms)

SpecCam == CamInit /\ [][CamNext]_vars

\* The vertex cache under zooming: a mesh with a corner towards the camera,
\* which the camera passes on its way in, up to MaxEvents paint and wheel
\* events.
MaxEvents == 8

DeepVertices ==
  << Vec3(Zero, Zero, Zero),
     Vec3(Two, Two, Two),
     Vec3(Two, Zero, Zero),
     Vec3(Zero, Zero, Two) >>
DeepMesh ==
  [vertices |-> DeepVertices, edges |-> << <<0, 1>>, <<0, 2>>, <<3, 1>>, <<2, 3>> >>]

CacheInit ==
  /\ LoaderStart /\ CliStart
  /\ vw = Viewer(DeepMesh, DefaultCap, MaxEvents)

CacheNext ==
  \/ \E up \in BOOLEAN : Wheel(up)
  \/ \E ms \in SlowFrames : Paint(ms)

SpecCache == CacheInit /\ [][CacheNext]_vars

RenderNext ==
  \/ \E args \in CliArgs : \E mesh \in PoolMeshes : CliMain(args, mesh)
  \/ RenderEdge
  \/ RenderReturn

LoadInit == LoaderStart /\ CliStart /\ ViewerOff

SpecLoad == LoadInit /\ [][LoadNext]_vars

\* The loader's runs with the history of the face records kept.
FaceInit ==
  /\ ret = "start"
  /\ out = EmptyMesh
  /\ edges = <<>>
  /\ nrec = 0
  /\ ntok = 0
  /\ sawBad = FALSE
  /\ rawEdges = <<>>
  /\ lastFace = NoFace
  /\ CliStart
  /\ ViewerOff

\* The file holds well-formed vertex records and face records only.
FaceNext ==
  \/ OpenFile
  \/ OpenFails
  \/ ReadVertex(<<Num(1), Num(2), Num(3)>>)
  \/ \E n \in 1..(MaxTokens - ntok) : \E toks \in FaceRecords(n) : ReadFace(toks)
  \/ EndOfFile

SpecFace == FaceInit /\ [][FaceNext]_vars

SpecRender == LoadInit /\ [][RenderNext]_vars

\* ------------------------------------------------------------------------
\* Claims about the loader (checked under SpecLoad).
\* ------------------------------------------------------------------------
Returned == ret \in {"true", "false", "threw"}

InRange(i, n) == 0 <= i /\ i < n

\* C1: after a successful loadOBJ every edge (a, b) of the Mesh has
\* 0 <= a < vertex_count and 0 <= b < vertex_count.
C1_EdgeIndicesInRange ==
  ret = "true" =>
    \A i \in 1..Len(out.edges) :
      /\ InRange(out.edges[i][1], Len(out.vertices))
      /\ InRange(out.edges[i][2], Len(out.vertices))

SameUnordered(e1, e2) ==
  \/ (e1[1] = e2[1] /\ e1[2] = e2[2])
  \/ (e1[1] = e2[2] /\ e1[2] = e2[1])

\* C2: the edge list loadOBJ produces (addFaceEdges, then dedupEdges) holds
\* no two entries that are the same unordered pair of indices and no entry
\* with equal endpoints.
C2_NoDuplicateNoLoop ==
  ret = "true" =>
    /\ \A i, j \in 1..Len(out.edges) :
         i < j => ~SameUnordered(out.edges[i], out.edges[j])
    /\ \A i \in 1..Len(out.edges) : out.edges[i][1] # out.edges[i][2]

\* C2's case: the faces gave some edge in both directions, and the
\* deduplication removed an entry.
C2_Witness ==
  /\ ret = "true"
  /\ \E i, j \in 1..Len(rawEdges) :
       /\ i < j
       /\ rawEdges[i][1] = rawEdges[j][2]
       /\ rawEdges[i][2] = rawEdges[j][1]
  /\ Len(out.edges) < Len(rawEdges)
  /\ Len(out.edges) >= 2

\* C3: when a vertex or face record holds a token that is no number,
\* loadOBJ does not return success, and the Mesh holds none of the vertices
\* or edges read before it.
C3_MalformedFailsWholeLoad ==
  (sawBad /\ Returned) => (ret # "true" /\ out = EmptyMesh)

\* The edge vector loadOBJ has built: its local vector, which the return
\* moves into the Mesh after the deduplication.
builtEdges == IF ret = "true" THEN rawEdges ELSE edges

BoundaryPairs(f) == [i \in 1..Len(f) |-> <<f[i], f[(i % Len(f)) + 1]>>]

NotLoop(e) == e[1] # e[2]

Boundary(f) == SelectSeq(BoundaryPairs(f), NotLoop)

QuadTokens == <<Num(1), Num(2), Num(3), Num(4)>>

QuadLoaded ==
  /\ ret = "true"
  /\ lastFace.toks = QuadTokens
  /\ lastFace.nverts = 4
  /\ ntok = Len(QuadTokens)

\* C11: a face record with n >= 2 resolved indices appends to the edge
\* vector exactly the pairs (f[i], f[(i+1) mod n]), i = 0..n-1, in order,
\* the closing pair included and the pairs with equal endpoints left out;
\* and four vertex records followed by the one face `f 1 2 3 4' load as a
\* Mesh of 4 vertices with exactly the edges 0-1, 1-2, 2-3, 3-0.
C11_FaceBoundaryEdges ==
  /\ (lastFace \notin {NoFace, NoTrace} /\ ~lastFace.threw /\ Len(lastFace.f) >= 2) =>
       builtEdges = lastFace.before \o Boundary(lastFace.f)
  /\ QuadLoaded =>
       /\ Len(out.vertices) = 4
       /\ out.edges = << <<0, 1>>, <<1, 2>>, <<2, 3>>, <<3, 0>> >>

\* C11's case: the quad has been loaded, its closing edge 3-0 included.
C11_Witness ==
  /\ QuadLoaded
  /\ Len(out.edges) = 4
  /\ out.edges[4] = <<3, 0>>

IsNum(tok) == tok.k = "num"

\* C12: in a face record, a negative index k resolves to the 0-based index
\* vertexCount + k, vertexCount being the number of vertices read before
\* that record, and a positive index k resolves to k - 1; with 3 vertices
\* read, -1 resolves to 2.  Tokens with nothing before the first '/' give
\* no index.
C12_IndexResolution ==
  (lastFace \notin {NoFace, NoTrace} /\ ~lastFace.threw) =>
    LET nums == SelectSeq(lastFace.toks, IsNum) IN
    /\ Len(lastFace.f) = Len(nums)
    /\ \A j \in 1..Len(nums) :
         /\ nums[j].v < 0 => lastFace.f[j] = lastFace.nverts + nums[j].v
         /\ nums[j].v > 0 => lastFace.f[j] = nums[j].v - 1
         /\ (nums[j].v = -1 /\ lastFace.nverts = 3) => lastFace.f[j] = 2

\* C12's case: a face record read after three vertices holds the index -1
\* behind a token that gives no index, and a positive index as well.
C12_Witness ==
  /\ lastFace \notin {NoFace, NoTrace} /\ ~lastFace.threw
  /\ lastFace.nverts = 3
  /\ \E i, j \in 1..Len(lastFace.toks) :
       /\ i < j
       /\ lastFace.toks[i] = EmptyTok
       /\ lastFace.toks[j] = Num(-1)
  /\ \E i \in 1..Len(lastFace.toks) : IsNum(lastFace.toks[i]) /\ lastFace.toks[i].v > 0
  /\ 2 \in {lastFace.f[j] : j \in 1..Len(lastFace.f)}

\* ------------------------------------------------------------------------
\* Claims about the static pipeline (checked under SpecRender).
\* ------------------------------------------------------------------------
InFront(c, near) == FGe(FNeg(c.z), near)
Behind(c, near)  == FLt(FNeg(c.z), near)
Straddles(a, b, near) ==
  \/ (InFront(a, near) /\ Behind(b, near))
  \/ (Behind(a, near) /\ InFront(b, near))

\* What C4 says of a clip result cl for the straddling endpoints a, b: the
\* endpoint in front is kept, the other one is moved onto z = -near, and
\* both endpoints of the surviving segment have -z >= near.
ClippedOntoNear(a, b, near, cl) ==
  /\ cl.ok
  /\ InFront(a, near) => (cl.a = a /\ cl.b.z = FNeg(near))
  /\ InFront(b, near) => (cl.b = b /\ cl.a.z = FNeg(near))
  /\ InFront(cl.a, near) /\ InFront(cl.b, near)

\* C4: for an edge with exactly one endpoint behind the near plane, both
\* clip routines keep the endpoint in front and put the other one at
\* camera-space z exactly -nearPlaneDistance, so that every surviving
\* segment has both endpoints with -z >= nearPlaneDistance.
C4_ClipLandsOnNearPlane ==
  LET r == cli.last.r  near == cli.cam.znear IN
  (cli.last.valid /\ Straddles(r.ac, r.bc, near)) =>
     /\ r.clip = clipToNear(r.ac, r.bc, near)
     /\ ClippedOntoNear(r.ac, r.bc, near, r.clip)
     /\ ClippedOntoNear(r.ac, r.bc, near, clipNear(r.ac, r.bc, near))

DirectLine(r) ==
  LET pa == projectPoint(cli.proj, r.ac, cli.W, cli.H)
      pb == projectPoint(cli.proj, r.bc, cli.W, cli.H)
  IN [ok |-> pa.ok /\ pb.ok, line |-> [a |-> pa.p, b |-> pb.p]]

LastLine == cli.lines[Len(cli.lines)]

\* C5 as stated: an edge with both camera-space endpoints behind the near
\* plane produces no segment, and an edge with both in front produces a
\* segment whose endpoints are the projections of the unmodified endpoints.
C5_AsStated ==
  LET r == cli.last.r  near == cli.cam.znear IN
  cli.last.valid =>
     /\ (Behind(r.ac, near) /\ Behind(r.bc, near)) => ~r.emitted
     /\ (InFront(r.ac, near) /\ InFront(r.bc, near)) =>
           (r.emitted /\ Len(cli.lines) > 0 /\ LastLine = DirectLine(r).line)

\* C5, amended: both endpoints behind the near plane: no segment; both in
\* front: a segment exactly when both unmodified endpoints project, and
\* its endpoints are then their projections (no interpolation applied).
C5_BehindNoneInFrontDirect ==
  LET r == cli.last.r  near == cli.cam.znear IN
  cli.last.valid =>
     /\ (Behind(r.ac, near) /\ Behind(r.bc, near)) => ~r.emitted
     /\ (InFront(r.ac, near) /\ InFront(r.bc, near)) =>
           /\ r.emitted <=> DirectLine(r).ok
           /\ r.emitted =>
                (Len(cli.lines) > 0 /\ LastLine = DirectLine(r).line)

\* C5's case: the edge just processed has both endpoints in front and was
\* emitted, after an edge with both endpoints behind was dropped.
C5_Witness ==
  LET r == cli.last.r  near == cli.cam.znear IN
  /\ cli.last.valid
  /\ InFront(r.ac, near) /\ InFront(r.bc, near)
  /\ r.emitted
  /\ cli.i = 2 /\ Len(cli.lines) = 1
  /\ LET r1 == renderEdge(cli.vm, cli.proj, cli.mesh, near, cli.W, cli.H,
                          cli.mesh.edges[1])
     IN Behind(r1.ac, near) /\ Behind(r1.bc, near)

\* The edge k of the mesh passes the near clip and fails to project.
ProjectionFails(k) ==
  LET r == renderEdge(cli.vm, cli.proj, cli.mesh, cli.cam.znear,
                      cli.W, cli.H, cli.mesh.edges[k])
  IN r.clip.ok /\ ~r.emitted

Emits(k) ==
  renderEdge(cli.vm, cli.proj, cli.mesh, cli.cam.znear,
             cli.W, cli.H, cli.mesh.edges[k]).emitted

Without(l, k) == [i \in 1..(Len(l) - 1) |-> IF i < k THEN l[i] ELSE l[i + 1]]

\* C6: a projection failure on one edge drops that edge and nothing else:
\* the pass runs over all edges, and the segments it returns are those it
\* returns for the mesh without the failing edge.
C6_FailureDropsOnlyThatEdge ==
  cli.pc = "drawn" =>
     /\ cli.i = Len(cli.mesh.edges)
     /\ \A k \in 1..Len(cli.mesh.edges) :
          ProjectionFails(k) =>
            cli.lines =
              linesFrom(cli.vm, cli.proj,
                        [cli.mesh EXCEPT !.edges = Without(@, k)],
                        cli.cam.znear, cli.W, cli.H, 1, <<>>)

\* C6's case: a pass in which an edge failed to project, with an edge
\* emitted before it and one after it.
C6_Witness ==
  /\ cli.pc = "drawn"
  /\ \E k \in 1..Len(cli.mesh.edges) :
       /\ ProjectionFails(k)
       /\ \E j \in 1..Len(cli.mesh.edges) : j < k /\ Emits(j)
       /\ \E j \in 1..Len(cli.mesh.edges) : j > k /\ Emits(j)
  /\ Len(cli.lines) = 2

\* ------------------------------------------------------------------------
\* Claims about the viewer's line batch (checked under SpecFrame).
\* ------------------------------------------------------------------------
MaxHalfPx == 12

\* The projection matrix of the last paintEvent.
lastP == projection(vw.camUsed, FDiv(IntF(vw.W), IntF(vw.H)))

\* The batch the last paintEvent would have built, from the same caches,
\* camera, viewport and maximum, had the threshold been lodPx with
\* fastMode on.
linesAt(P, lodPx) ==
  buildLines([mesh |-> vw.mesh, camVerts |-> vw.camVerts,
              screens |-> vw.screens, valid |-> vw.valid,
              P |-> P, znear |-> vw.camUsed.znear, W |-> vw.W, H |-> vw.H,
              fastMode |-> TRUE, lod2 |-> FMul(lodPx, lodPx),
              cap |-> vw.maxLinesCap]).lines

\* The numbers of segments at the thresholds k/2 px, k = 1, 2, ...
RECURSIVE countsFrom(_, _, _)
countsFrom(P, k, cnt) ==
  IF k > MaxHalfPx THEN cnt
  ELSE countsFrom(P, k + 1, Append(cnt, Len(linesAt(P, Lit(k, 2)))))

\* C7: in a frame built with detail reduction enabled, raising the LOD
\* threshold never increases the number of emitted segments (t1 <= t2
\* implies count(t2) <= count(t1), the mesh, camera, viewport and maximum
\* being the same), and no emitted segment has a squared pixel length
\* below the threshold squared.
C7_LodMonotone ==
  (vw.clockValid /\ vw.fastUsed) =>
     LET cnt == countsFrom(lastP, 1, <<>>) IN
     /\ vw.lines = linesAt(lastP, vw.lodUsed)
     /\ \A k \in 1..Len(vw.lines) :
          ~FLt(pixelLen2(vw.lines[k].a, vw.lines[k].b),
               FMul(vw.lodUsed, vw.lodUsed))
     /\ \A i, j \in 1..MaxHalfPx : i <= j => cnt[j] <= cnt[i]
     /\ \A k \in 1..MaxHalfPx :
          /\ FLe(vw.lodUsed, Lit(k, 2)) => cnt[k] <= Len(vw.lines)
          /\ FLe(Lit(k, 2), vw.lodUsed) => Len(vw.lines) <= cnt[k]

\* C7's case: a frame with detail reduction enabled in which a segment is
\* emitted, and another one is dropped that a lower threshold keeps.
C7_Witness ==
  /\ vw.clockValid /\ vw.fastUsed
  /\ Len(vw.lines) >= 1
  /\ \E k \in 1..MaxHalfPx :
       /\ FLt(Lit(k, 2), vw.lodUsed)
       /\ Len(linesAt(lastP, Lit(k, 2))) > Len(vw.lines)

C9_LodWithinBounds ==
  /\ FLe(vw.lodPx, IntF(5))
  /\ FGe(vw.lodPx, Lit(25, 100))

\* ------------------------------------------------------------------------
\* Claim about the camera (checked under SpecCam).
\* ------------------------------------------------------------------------
\* C10: after any wheel, mouse-drag, O and R key and paint events, the
\* camera a paintEvent builds the projection matrix from has
\* 0 < znear < zfar.
C10_NearBelowFar ==
  vw.clockValid =>
     /\ FLt(Zero, vw.camUsed.znear)
     /\ FLt(vw.camUsed.znear, vw.camUsed.zfar)

\* ------------------------------------------------------------------------
\* Claims about the viewer's vertex cache (checked under SpecCache).
\* ------------------------------------------------------------------------
usedP == projection(vw.camUsed, FDiv(IntF(vw.W), IntF(vw.H)))

BothCached(e) == vw.valid[e[1] + 1] /\ vw.valid[e[2] + 1]

\* The edge e without the cache: near-clip and projection of its two
\* camera-space endpoints.
Uncached(e, P) ==
  clipProject(vw.camVerts[e[1] + 1], vw.camVerts[e[2] + 1],
              P, vw.camUsed.znear, vw.W, vw.H)

FreshOk(i, P) ==
  LET fresh == projectToScreen(vw.camVerts[i], P, vw.W, vw.H) IN
  /\ InFront(vw.camVerts[i], vw.camUsed.znear)
  /\ fresh.ok
  /\ vw.screens[i] = fresh.p

CacheAgrees(P) ==
  /\ vw.camVerts = cameraVerts(view(vw.camUsed), vw.mesh.vertices)
  /\ \A i \in 1..Len(vw.valid) : vw.valid[i] => FreshOk(i, P)
  /\ \A k \in 1..Len(vw.mesh.edges) :
       BothCached(vw.mesh.edges[k]) =>
          LET u == Uncached(vw.mesh.edges[k], P) IN
          /\ u.ok
          /\ u.sa = vw.screens[vw.mesh.edges[k][1] + 1]
          /\ u.sb = vw.screens[vw.mesh.edges[k][2] + 1]
  /\ \A j \in 1..Len(vw.lines) :
       LET u == Uncached(vw.mesh.edges[vw.lineEdge[j]], P) IN
       u.ok /\ vw.lines[j] = [a |-> u.sa, b |-> u.sb]
  /\ \A k \in 1..vw.scanned :
       (\A j \in 1..Len(vw.lineEdge) : vw.lineEdge[j] # k) =>
          LET u == Uncached(vw.mesh.edges[k], P) IN
          \/ ~u.ok
          \/ lodSkips(vw.fastUsed, u.sa, u.sb, FMul(vw.lodUsed, vw.lodUsed))

\* C13: in a frame's line build, an edge whose two endpoints are taken
\* from the per-vertex cache has the outcome that near-clip and projection
\* of its camera-space endpoints give without the cache (the same pair of
\* screen points, never an omission); every emitted line is the pair that
\* near-clip and projection give for its edge and every edge passed over
\* is one they omit or the LOD filter drops; and every vertex marked valid
\* was validated in this frame: it is in front of this frame's near plane
\* and its cached screen point is this frame's projection of it.
C13_CacheIsPureOptimisation == vw.clockValid => CacheAgrees(usedP)

\* C13's case: a vertex validated in an earlier frame is not valid in this
\* one and its slot still holds the earlier screen point; an edge through
\* it fell back to the clip path, and another edge was emitted from the
\* cache.
C13_Witness ==
  /\ vw.clockValid
  /\ \E i \in 1..Len(vw.valid) :
       /\ ~vw.valid[i]
       /\ vw.screens[i] # Vec2(Zero, Zero)
       /\ \E k \in 1..Len(vw.mesh.edges) :
            (i - 1) \in {vw.mesh.edges[k][1], vw.mesh.edges[k][2]}
  /\ \E j \in 1..Len(vw.lines) : BothCached(vw.mesh.edges[vw.lineEdge[j]])

\* ------------------------------------------------------------------------
\* Claims about the LOD feedback loop over time (checked under SpecLodFair).
\* ------------------------------------------------------------------------
LodKept == vw'.lodPx = vw.lodPx

\* C14: if from some frame on every frame's smoothed time is over 105% of
\* the budget, the LOD threshold is from some frame on never changed again;
\* the same if from some frame on every frame's smoothed time is under 80%
\* of the budget; and a frame whose smoothed time is within the two leaves
\* the threshold as it was.
C14_LodSettles ==
  /\ (<>[](vw.band = "over")) => <>[][LodKept]_vars
  /\ (<>[](vw.band = "under")) => <>[][LodKept]_vars
  /\ [][vw'.band = "within" => LodKept]_vars

\* C14's case: the frames have been over budget and the threshold has
\* reached a value the loop no longer increases.
C14_Witness ==
  /\ vw.band = "over"
  /\ ~FLt(vw.lodPx, IntF(5))
  /\ adaptLod(vw.lodPx, vw.smoothedMs, vw.targetFps) = vw.lodPx

=============================================================================
